---- MODULE Spec2Model ----
(***************************************************************************)
(* TaskPal real-time core: the Redis pub/sub service (PubSubService), the  *)
(* REST pub/sub routes and the WebSocket event handlers.                   *)
(*                                                                         *)
(* Representation.                                                         *)
(*  - A channel key is the tuple of its ':'-separated segments, so         *)
(*    "workspace:w1" is <<"workspace", "w1">>; ids contain no ':'.         *)
(*  - A Python dict is a set of <<key, value>> pairs with unique keys.     *)
(*  - A callback is a record [owner, n]: n = 0 is a callable handed to     *)
(*    PubSubService.subscribe by its caller, n > 0 is the n-th closure     *)
(*    channel_callback created by the REST subscribe route.                *)
(*  - Redis is the set of channels the service's pubsub connection is      *)
(*    subscribed to plus the messages waiting on that connection.          *)
(***************************************************************************)
EXTENDS Integers, Sequences, FiniteSets, TLC

\* ---------------------------------------------------------------- bounds
\* calls of subscribe() and of publish() in one run
MaxUpdate == 2
MaxReaders == 2
MaxCalls == 4
MaxSubscribe == 2
MaxPublish == 1
\* the same, for the runs with concurrent callers and stop()
RaceSubscribe == 2
RacePublish == 2

\* ---------------------------------------------------------------- universe
Users == {"u1", "u2"}
W1 == <<"workspace", "w1">>
N1 == <<"user", "u1", "notifications">>
ServiceChannels == {W1, N1}

Workspaces == {"w1"}
Sids == {"s1", "s2"}
W1M == <<"workspace", "w1", "members">>
N2 == <<"user", "u2", "notifications">>
\* 'user:u1', 'workspace:', 'page:p1' and the missing channel of data.get('channel')
BareUser == <<"user", "u1">>
BareWorkspace == <<"workspace", "">>
P1 == <<"page", "p1">>
NoChannel == <<>>
AccessChannels == {W1, W1M, N1, N2, BareUser, BareWorkspace, P1, NoChannel}

NoSub == [via |-> "none", user |-> "", channel |-> NoChannel, granted |-> FALSE,
          member |-> FALSE, failed |-> FALSE]
NoResp == [route |-> "none", status |-> 0, channel |-> NoChannel, member |-> FALSE,
           published |-> FALSE, empty |-> FALSE, redisOk |-> FALSE, failed |-> FALSE]

\* no get_profile has returned yet
NoGet == [value |-> 0, floor |-> 0, hit |-> FALSE]

CbA == [owner |-> "A", n |-> 0]
CbBad == [owner |-> "bad", n |-> 0]
DirectCallbacks == {CbA, CbBad}
\* the absent callback of unsubscribe(channel)
None == [owner |-> "None", n |-> 0]

VARIABLES
    subscribers,      \* PubSubService.subscribers: channel -> list of callbacks
    redisSubs,        \* channels the pubsub_client connection is subscribed to
    running,          \* PubSubService.running
    threads,          \* the listener threads that are alive, in start order
    inbox,            \* messages Redis has pushed to the pubsub connection
    at95,             \* subscribe calls about to run _start_listener line 95
    at98,             \* _start_listener calls past line 95-96, before line 98
    stopping,         \* a stop() call is between line 134 and line 139
    appCtx,           \* the listener thread sees a Flask application context
    nsub,             \* subscribe calls made so far
    track,            \* history: whether `left` is recorded in this run
    published,        \* history: one record per PubSubService.publish call
    received,         \* history: callback -> ids of the messages it was called with
    left,             \* history: <<channel, callback>> unsubscribed, not re-subscribed
    joined,           \* history: <<channel, callback>> ever subscribed
    active_connections, \* websocket.py: sid -> [user_id, channels]
    rooms,            \* Flask-SocketIO rooms: <<channel, sid>>
    connState,        \* sid -> "new", "open", "rejected" or "closed"
    wsOut,            \* the last event a handler emitted, and the sid it went to
    membership,       \* WorkspaceMember rows with is_active: <<user, workspace>>
    user_subscriptions, \* routes/pubsub.py: channel -> list of user ids
    lastSub,          \* history: the last subscribe request and how it was decided
    resp,             \* the last HTTP response
    started,          \* create_app ran init_websocket_bridge
    wsReceived,       \* history: sid -> ids of the 'message' events it was sent
    inflight,         \* event handlers that a thread is part-way through
    userRow,          \* routes/user.py: the version of the user's row in the database
    cacheEntry,       \* the cache under user_profile:<id>: <<>> or <<version>>
    profileReads,     \* get_profile calls past the cache miss
    profileWrite,     \* an update past db.session.commit(), before its cache delete
    acked,            \* history: the newest version whose update request has returned
    lastGet,          \* history: what the last get_profile returned, and acked at its start
    instance,         \* the module global _pubsub_service: 0 is None
    at191,            \* get_pubsub_service calls past the test of line 190
    at193,            \* get_pubsub_service calls past line 191, before the return
    created,          \* PubSubService objects constructed so far
    handed,           \* history: the instances get_pubsub_service has returned
    ncalls            \* get_pubsub_service calls made so far

vars == <<subscribers, redisSubs, running, threads, inbox, at95, at98, stopping,
          appCtx, nsub, track, published, received, left, joined, active_connections, rooms, connState,
          wsOut, membership, user_subscriptions, lastSub, resp, started, wsReceived,
          inflight, userRow, cacheEntry, profileReads, profileWrite, acked, lastGet,
          instance, at191, at193, created, handed, ncalls>>

svcVars == <<subscribers, redisSubs, running, threads, inbox, at95, at98, stopping,
             appCtx, nsub, track, published, received, left, joined>>

wsVars == <<active_connections, rooms, connState, wsOut, wsReceived, inflight>>

restVars == <<user_subscriptions, resp>>

profileVars == <<userRow, cacheEntry, profileReads, profileWrite, acked, lastGet>>

singletonVars == <<instance, at191, at193, created, handed, ncalls>>

appVars == <<profileVars, singletonVars>>

accessVars == <<wsVars, restVars, membership, lastSub, started, appVars>>

\* ---------------------------------------------------------------- helpers
Range(s) == {s[i] : i \in 1..Len(s)}

Count(s, x) == Cardinality({i \in 1..Len(s) : s[i] = x})

\* dict.get(key, default)
DictGet(d, k, default) ==
    IF \E p \in d : p[1] = k THEN (CHOOSE p \in d : p[1] = k)[2] ELSE default

\* {**d, k: v}
DictSet(d, k, v) == {p \in d : p[1] # k} \cup {<<k, v>>}

DictKeys(d) == {p[1] : p \in d}

\* list.remove(x): drops the first occurrence
RemoveFirst(s, x) ==
    LET i == CHOOSE j \in 1..Len(s) : s[j] = x /\ \A k \in 1..(j - 1) : s[k] # x
    IN  SubSeq(s, 1, i - 1) \o SubSeq(s, i + 1, Len(s))

DropKey(f, k) == [c \in DOMAIN f \ {k} |-> f[c]]

Recv(cb) == IF cb \in DOMAIN received THEN received[cb] ELSE <<>>

\* ---------------------------------------------------------------- messages
\* A message handed to publish() is a dict (serialisable or not) or a str.
\* Text on the wire is JSON text of a dict, or plain text.
DictMsg(d) == [kind |-> "dict", d |-> d, s |-> ""]
BadDictMsg(d) == [kind |-> "baddict", d |-> d, s |-> ""]
StrMsg(s) == [kind |-> "str", d |-> {}, s |-> s]
JsonStrMsg(d) == [kind |-> "jsonstr", d |-> d, s |-> ""]

JsonText(d) == [enc |-> "json", d |-> d, s |-> ""]
PlainText(s) == [enc |-> "plain", d |-> {}, s |-> s]
DumpsError == [enc |-> "error", d |-> {}, s |-> ""]

\* publish lines 45-48 with a json.dumps that encodes every dict
Dumps_EncodesAnything(m) ==
    CASE m.kind = "dict" -> JsonText(m.d)
      [] m.kind = "baddict" -> JsonText(m.d)
      [] m.kind = "jsonstr" -> JsonText(m.d)
      [] OTHER -> PlainText(m.s)

\* publish lines 45-48: json.dumps of a dict, a str as it is
Dumps(m) ==
    CASE m.kind = "dict" -> JsonText(m.d)
      [] m.kind = "baddict" -> DumpsError
      [] m.kind = "jsonstr" -> JsonText(m.d)
      [] OTHER -> PlainText(m.s)

\* _listen_loop lines 115-118: json.loads, the raw data when it does not parse
Loads(w) == IF w.enc = "json" THEN DictMsg(w.d) ELSE StrMsg(w.s)

Payloads == {DictMsg({<<"type", "renamed">>})}

\* ---------------------------------------------------------------- Init
Init ==
    /\ subscribers = <<>>
    /\ redisSubs = {}
    /\ running = FALSE
    /\ threads = <<>>
    /\ inbox = <<>>
    /\ at95 = 0
    /\ at98 = 0
    /\ stopping = FALSE
    /\ appCtx \in BOOLEAN
    /\ nsub = 0
    /\ track = FALSE
    /\ published = <<>>
    /\ received = <<>>
    /\ left = {}
    /\ joined = {}
    /\ active_connections = <<>>
    /\ rooms = {}
    /\ connState = [sid \in Sids |-> "new"]
    /\ wsOut = [sid |-> "", event |-> "none"]
    /\ membership = {}
    /\ user_subscriptions = <<>>
    /\ lastSub = NoSub
    /\ resp = NoResp
    /\ started = FALSE
    /\ wsReceived = [sid \in Sids |-> <<>>]
    /\ inflight = {}
    /\ userRow = 0
    /\ cacheEntry = <<>>
    /\ profileReads = {}
    /\ profileWrite = <<>>
    /\ acked = 0
    /\ lastGet = NoGet
    /\ instance = 0
    /\ at191 = 0
    /\ at193 = 0
    /\ created = 0
    /\ handed = {}
    /\ ncalls = 0

\* ---------------------------------------------------------------- PubSubService
NoMsg == [channel |-> <<>>, data |-> PlainText(""), id |-> 0]

NewThread == [pc |-> "listen", msg |-> NoMsg, idx |-> 0, det |-> FALSE,
              snap |-> <<>>, doomed |-> FALSE]

\* the threads that are left when thread t ends
Without(t) == SubSeq(threads, 1, t - 1) \o SubSeq(threads, t + 1, Len(threads))

\* redis_client.publish(channel, message): the number of connections that got it
RedisReceivers(ch) == IF ch \in redisSubs THEN 1 ELSE 0

\* publish line 52: return result > 0
PublishResult(ch) == RedisReceivers(ch) > 0

\* publish lines 42-56: what publish() returns
PublishReturn(ch, m, redisOk) ==
    Dumps(m).enc # "error" /\ redisOk /\ PublishResult(ch)

\* publish lines 42-56, as the part of an action that touches the service
PubSubPublish(ch, m, redisOk) ==
    LET w == Dumps(m)
        sent == w.enc # "error" /\ redisOk
        id == Len(published) + 1
    IN  /\ inbox' = IF sent /\ ch \in redisSubs
                    THEN Append(inbox, [channel |-> ch, data |-> w, id |-> id])
                    ELSE inbox
        /\ published' = Append(published,
               [channel |-> ch, msg |-> m, sent |-> sent,
                subsAt |-> IF ch \in DOMAIN subscribers THEN subscribers[ch] ELSE <<>>,
                left |-> {p[2] : p \in {q \in left : q[1] = ch}},
                roomAt |-> {sid \in Sids : <<ch, sid>> \in rooms},
                started |-> started,
                ok |-> PublishReturn(ch, m, redisOk)])

\* publish(channel, message) called on the service itself
Publish(ch, m, redisOk) ==
    /\ PubSubPublish(ch, m, redisOk)
    /\ UNCHANGED accessVars
    /\ UNCHANGED <<subscribers, redisSubs, running, threads, at95, at98, stopping,
                   appCtx, nsub, track, received, left, joined>>

\* subscribe line 65: self.subscribers[channel].append(callback)
AddCallback(list, cb) == Append(list, cb)

\* subscribe lines 61-63 raise: the channel is new and pubsub_client.subscribe fails
SubscribeRaises(ch, redisOk) == ch \notin DOMAIN subscribers /\ ~redisOk

\* subscribe line 69: the call goes on to _start_listener
SubscribeStarts(ch, redisOk) == ~SubscribeRaises(ch, redisOk) /\ ~running

\* subscribe lines 60-67, as the part of an action that touches the registry;
\* redisOk: pubsub_client.subscribe worked
PubSubSubscribe(ch, cb, redisOk) ==
    LET fresh == ch \notin DOMAIN subscribers
        raised == SubscribeRaises(ch, redisOk)
    IN  /\ nsub' = nsub + 1
        /\ subscribers' =
               IF raised THEN subscribers @@ (ch :> <<>>)
               ELSE IF fresh THEN subscribers @@ (ch :> AddCallback(<<>>, cb))
               ELSE [subscribers EXCEPT ![ch] = AddCallback(@, cb)]
        /\ redisSubs' = IF fresh /\ redisOk THEN redisSubs \cup {ch} ELSE redisSubs
        /\ left' = IF raised THEN left ELSE left \ {<<ch, cb>>}
        /\ joined' = IF raised THEN joined ELSE joined \cup {<<ch, cb>>}

\* subscribe lines 58-73 with _start_listener lines 93-101, run by one caller
PubSubSubscribeAndStart(ch, cb, redisOk) ==
    /\ PubSubSubscribe(ch, cb, redisOk)
    /\ running' = (running \/ SubscribeStarts(ch, redisOk))
    /\ threads' = IF SubscribeStarts(ch, redisOk) THEN Append(threads, NewThread)
                  ELSE threads

\* subscribe(channel, callback) called on the service itself, one caller at a time
Subscribe(ch, cb, redisOk) ==
    /\ PubSubSubscribeAndStart(ch, cb, redisOk)
    /\ UNCHANGED accessVars
    /\ UNCHANGED <<inbox, at95, at98, stopping, appCtx, track, published, received>>

\* subscribe lines 58-69 of a caller that runs beside other callers: it stops
\* before _start_listener
SubscribeBegin(ch, cb, redisOk) ==
    /\ PubSubSubscribe(ch, cb, redisOk)
    /\ at95' = IF SubscribeStarts(ch, redisOk) THEN at95 + 1 ELSE at95
    /\ UNCHANGED accessVars
    /\ UNCHANGED <<running, threads, inbox, at98, stopping, appCtx, track, published,
                   received>>

\* _start_listener lines 95-96
StartListenerCheck ==
    /\ at95 > 0
    /\ at95' = at95 - 1
    /\ at98' = IF running THEN at98 ELSE at98 + 1
    /\ UNCHANGED accessVars
    /\ UNCHANGED <<subscribers, redisSubs, running, threads, inbox, stopping, appCtx,
                   nsub, track, published, received, left, joined>>

\* _start_listener lines 98-100
StartListenerSpawn ==
    /\ at98 > 0
    /\ at98' = at98 - 1
    /\ running' = TRUE
    /\ threads' = Append(threads, NewThread)
    /\ UNCHANGED accessVars
    /\ UNCHANGED <<subscribers, redisSubs, inbox, at95, stopping, appCtx, nsub, track,
                   published, received, left, joined>>

\* a listener iterating subscribers[ch] keeps the list object when the key is deleted
Detach(ch, list) ==
    [t \in DOMAIN threads |->
        IF threads[t].pc = "iter" /\ ~threads[t].det /\ threads[t].msg.channel = ch
        THEN [threads[t] EXCEPT !.det = TRUE, !.snap = list]
        ELSE threads[t]]

\* lines 80-81 without the membership test of line 80: list.remove of an absent
\* callback is replaced by dropping the last one
RemoveCallback_DropsLastWhenAbsent(list, cb) ==
    IF cb = None \/ list = <<>> THEN list
    ELSE IF cb \in Range(list) THEN RemoveFirst(list, cb)
    ELSE SubSeq(list, 1, Len(list) - 1)

\* unsubscribe lines 80-81: the list once the callback is removed
RemoveCallback(list, cb) ==
    IF cb # None /\ cb \in Range(list) THEN RemoveFirst(list, cb) ELSE list

\* unsubscribe lines 75-91 on a channel that is a key of subscribers;
\* cb = None is the call without a callback
Unsubscribe(ch, cb, redisOk) ==
    /\ ch \in DOMAIN subscribers
    /\ LET list == subscribers[ch]
           after == RemoveCallback(list, cb)
           drop == cb = None \/ after = <<>>
       IN  /\ subscribers' = IF drop THEN DropKey(subscribers, ch)
                             ELSE [subscribers EXCEPT ![ch] = after]
           /\ threads' = IF drop THEN Detach(ch, after) ELSE threads
           /\ redisSubs' = IF drop /\ redisOk THEN redisSubs \ {ch} ELSE redisSubs
           /\ left' = IF ~track THEN left
                      ELSE IF cb = None THEN left \cup {<<ch, c>> : c \in Range(list)}
                      ELSE left \cup {<<ch, cb>>}
    /\ UNCHANGED accessVars
    /\ UNCHANGED <<running, inbox, at95, at98, stopping, appCtx, nsub, track, published,
                   received, joined>>

\* unsubscribe of a channel that is no key of subscribers: line 78 is false
UnsubscribeUnknown(ch, cb) ==
    /\ ch \notin DOMAIN subscribers
    /\ UNCHANGED vars

\* ---------------------------------------------------------------- _listen_loop
\* a callback raises: the caller's "bad" callable always; the REST closure uses
\* current_app (routes/pubsub.py line 167), which needs an application context
Raises(cb) == cb.owner = "bad" \/ (cb.n > 0 /\ ~appCtx)

\* the logging on lines 126 and 128 uses current_app as well
LogRaises == ~appCtx

\* the loop of line 122 run over the callbacks of every channel
CallbackListAllChannels(t) ==
    (IF W1 \in DOMAIN subscribers THEN subscribers[W1] ELSE <<>>) \o
    (IF N1 \in DOMAIN subscribers THEN subscribers[N1] ELSE <<>>)

\* line 122: the list the loop iterates for the message's channel
CallbackList(t) ==
    IF threads[t].det THEN threads[t].snap ELSE subscribers[threads[t].msg.channel]

\* lines 106-108: listen() yields the next message; break when not running
ListenerTake(t) ==
    /\ threads[t].pc = "listen"
    /\ inbox # <<>>
    /\ inbox' = Tail(inbox)
    /\ IF running
       THEN /\ threads' = [threads EXCEPT ![t].pc = "check", ![t].msg = Head(inbox)]
            /\ UNCHANGED running
       ELSE /\ threads' = Without(t)
            /\ running' = FALSE
    /\ UNCHANGED accessVars
    /\ UNCHANGED <<subscribers, redisSubs, at95, at98, stopping, appCtx, nsub, track,
                   published, received, left, joined>>

\* line 121: if channel in self.subscribers
ListenerCheck(t) ==
    /\ threads[t].pc = "check"
    /\ threads' = [threads EXCEPT ![t].pc =
           IF threads[t].msg.channel \in DOMAIN subscribers THEN "lookup" ELSE "listen"]
    /\ UNCHANGED accessVars
    /\ UNCHANGED <<subscribers, redisSubs, running, inbox, at95, at98, stopping, appCtx,
                   nsub, track, published, received, left, joined>>

\* line 122: self.subscribers[channel]; KeyError ends the loop (lines 127-130)
ListenerLookup(t) ==
    /\ threads[t].pc = "lookup"
    /\ IF threads[t].msg.channel \in DOMAIN subscribers
       THEN /\ threads' = [threads EXCEPT ![t].pc = "iter", ![t].idx = 1]
            /\ UNCHANGED running
       ELSE /\ threads' = Without(t)
            /\ running' = FALSE
    /\ UNCHANGED accessVars
    /\ UNCHANGED <<subscribers, redisSubs, inbox, at95, at98, stopping, appCtx, nsub,
                   track, published, received, left, joined>>

\* lines 125-130: the callback raised; logging it raises too without a context,
\* and that ends the loop
CallbackErrorEndsLoop(cb) == Raises(cb) /\ LogRaises

\* lines 122-126: one step of the for loop over the callbacks
ListenerCall(t) ==
    /\ threads[t].pc = "iter"
    /\ LET list == CallbackList(t)
           i == threads[t].idx
       IN  IF i > Len(list)
           THEN /\ threads' = [threads EXCEPT ![t].pc = "listen", ![t].msg = NoMsg,
                                  ![t].idx = 0, ![t].det = FALSE, ![t].snap = <<>>]
                /\ UNCHANGED <<running, received>>
           ELSE /\ received' = (list[i] :> Append(Recv(list[i]), threads[t].msg.id))
                                   @@ received
                /\ IF CallbackErrorEndsLoop(list[i])
                   THEN /\ threads' = Without(t)
                        /\ running' = FALSE
                   ELSE /\ threads' = [threads EXCEPT ![t].idx = i + 1]
                        /\ UNCHANGED running
    /\ UNCHANGED accessVars
    /\ UNCHANGED <<subscribers, redisSubs, inbox, at95, at98, stopping, appCtx, nsub,
                   track, published, left, joined>>

\* ---------------------------------------------------------------- stop
\* stop line 134
StopSet ==
    /\ ~stopping
    /\ running' = FALSE
    /\ stopping' = TRUE
    /\ UNCHANGED accessVars
    /\ UNCHANGED <<subscribers, redisSubs, threads, inbox, at95, at98, appCtx, nsub,
                   track, published, received, left, joined>>

\* stop lines 135-144: join gave up or returned, both clients are closed
StopClose ==
    /\ stopping
    /\ stopping' = FALSE
    /\ redisSubs' = {}
    /\ inbox' = <<>>
    /\ threads' = [t \in DOMAIN threads |-> [threads[t] EXCEPT !.doomed = TRUE]]
    /\ UNCHANGED accessVars
    /\ UNCHANGED <<subscribers, running, at95, at98, appCtx, nsub, track, published,
                   received, left, joined>>

\* a listener blocked in listen() on the closed connection ends (lines 127-130)
ListenerExit(t) ==
    /\ threads[t].pc = "listen"
    /\ threads[t].doomed
    /\ threads' = Without(t)
    /\ running' = FALSE
    /\ UNCHANGED accessVars
    /\ UNCHANGED <<subscribers, redisSubs, inbox, at95, at98, stopping, appCtx, nsub,
                   track, published, received, left, joined>>

\* ---------------------------------------------------------------- the service
\* One thread calls the service while its listener thread runs.
Listener ==
    \/ \E t \in DOMAIN threads : ListenerTake(t)
    \/ \E t \in DOMAIN threads : ListenerCheck(t)
    \/ \E t \in DOMAIN threads : ListenerLookup(t)
    \/ \E t \in DOMAIN threads : ListenerCall(t)

Next ==
    \/ \E ch \in ServiceChannels, cb \in DirectCallbacks, ok \in BOOLEAN :
           nsub < MaxSubscribe /\ Subscribe(ch, cb, ok)
    \/ \E ch \in ServiceChannels, cb \in DirectCallbacks \cup {None}, ok \in BOOLEAN :
           Unsubscribe(ch, cb, ok)
    \/ \E ch \in ServiceChannels, m \in Payloads, ok \in BOOLEAN :
           Len(published) < MaxPublish /\ Publish(ch, m, ok)
    \/ Listener

Spec == Init /\ [][Next]_vars

\* Several threads call the service, stop() included.
RaceNext ==
    \/ \E ch \in ServiceChannels, cb \in DirectCallbacks :
           nsub < RaceSubscribe /\ SubscribeBegin(ch, cb, TRUE)
    \/ StartListenerCheck
    \/ StartListenerSpawn
    \/ \E ch \in ServiceChannels, cb \in DirectCallbacks \cup {None} :
           Unsubscribe(ch, cb, TRUE)
    \/ \E ch \in ServiceChannels, m \in Payloads :
           Len(published) < RacePublish /\ Publish(ch, m, TRUE)
    \/ Listener
    \/ \E t \in DOMAIN threads : ListenerExit(t)
    \/ StopSet
    \/ StopClose

SpecRace == Init /\ [][RaceNext]_vars

\* The service with one caller, and every unsubscribe recorded in `left`.
InitTrack ==
    /\ subscribers = <<>>
    /\ redisSubs = {}
    /\ running = FALSE
    /\ threads = <<>>
    /\ inbox = <<>>
    /\ at95 = 0
    /\ at98 = 0
    /\ stopping = FALSE
    /\ appCtx \in BOOLEAN
    /\ nsub = 0
    /\ track = TRUE
    /\ published = <<>>
    /\ received = <<>>
    /\ left = {}
    /\ joined = {}
    /\ active_connections = <<>>
    /\ rooms = {}
    /\ connState = [sid \in Sids |-> "new"]
    /\ wsOut = [sid |-> "", event |-> "none"]
    /\ membership = {}
    /\ user_subscriptions = <<>>
    /\ lastSub = NoSub
    /\ resp = NoResp
    /\ started = FALSE
    /\ wsReceived = [sid \in Sids |-> <<>>]
    /\ inflight = {}
    /\ userRow = 0
    /\ cacheEntry = <<>>
    /\ profileReads = {}
    /\ profileWrite = <<>>
    /\ acked = 0
    /\ lastGet = NoGet
    /\ instance = 0
    /\ at191 = 0
    /\ at193 = 0
    /\ created = 0
    /\ handed = {}
    /\ ncalls = 0

SpecLeave == InitTrack /\ [][Next]_vars

\* ---------------------------------------------------------------- access policy
\* channel.startswith(f'user:{user_id}:'), websocket.py line 160
IsUserChannelOf(ch, u) == Len(ch) >= 3 /\ ch[1] = "user" /\ ch[2] = u

\* channel.startswith('workspace:'), websocket.py line 164
IsWorkspaceChannel(ch) == Len(ch) >= 2 /\ ch[1] = "workspace"

\* channel.split(':')[1], websocket.py line 165
WorkspaceOf(ch) == ch[2]

\* WorkspaceMember.query.filter_by(workspace_id, user_id, is_active=True).first()
\* is a row: the id must be one the UUID column accepts, else the query raises
QueryRaises(wid, dbOk) == ~dbOk \/ wid \notin Workspaces

ActiveMember(u, wid) == <<u, wid>> \in membership

\* verify_channel_access with the user id left out of the prefix on line 160
verify_channel_access_AnyUser(u, ch, dbOk) ==
    IF Len(ch) >= 3 /\ ch[1] = "user" THEN TRUE
    ELSE IF IsWorkspaceChannel(ch)
         THEN ~QueryRaises(WorkspaceOf(ch), dbOk) /\ ActiveMember(u, WorkspaceOf(ch))
         ELSE FALSE

\* verify_channel_access with line 178 returning True
verify_channel_access_FailOpen(u, ch, dbOk) ==
    IF IsUserChannelOf(ch, u) THEN TRUE
    ELSE IF IsWorkspaceChannel(ch)
         THEN QueryRaises(WorkspaceOf(ch), dbOk) \/ ActiveMember(u, WorkspaceOf(ch))
         ELSE FALSE

\* verify_channel_access with line 174 returning True
verify_channel_access_DefaultAllow(u, ch, dbOk) ==
    IF IsUserChannelOf(ch, u) THEN TRUE
    ELSE IF IsWorkspaceChannel(ch)
         THEN ~QueryRaises(WorkspaceOf(ch), dbOk) /\ ActiveMember(u, WorkspaceOf(ch))
         ELSE TRUE

\* verify_channel_access, websocket.py lines 156-178
verify_channel_access(u, ch, dbOk) ==
    IF IsUserChannelOf(ch, u) THEN TRUE
    ELSE IF IsWorkspaceChannel(ch)
         THEN ~QueryRaises(WorkspaceOf(ch), dbOk) /\ ActiveMember(u, WorkspaceOf(ch))
         ELSE FALSE

\* history: whether u is an active member of the workspace a channel names
MemberFor(u, ch) == IsWorkspaceChannel(ch) /\ ActiveMember(u, WorkspaceOf(ch))

\* history: verify_channel_access reached the query of lines 166-170 and it raised
LookupFailed(u, ch, dbOk) ==
    ~IsUserChannelOf(ch, u) /\ IsWorkspaceChannel(ch) /\ QueryRaises(WorkspaceOf(ch), dbOk)

\* a WorkspaceMember row is added, activated, deactivated or removed
SetMembership(u, wid, active) ==
    /\ membership' = IF active THEN membership \cup {<<u, wid>>}
                     ELSE membership \ {<<u, wid>>}
    /\ membership' # membership
    /\ UNCHANGED <<svcVars, wsVars, appVars, restVars, lastSub, started>>

\* ---------------------------------------------------------------- WebSocket
\* what the client sends as its token
Tokens == {[kind |-> "jwt", sub |-> u] : u \in Users} \cup
          {[kind |-> "jwt", sub |-> "ghost"], [kind |-> "missing", sub |-> ""],
           [kind |-> "garbage", sub |-> ""]}

\* authenticate_socket without the user lookup of lines 29-31
authenticate_socket_NoUserLookup(token) ==
    IF token.kind = "jwt" THEN token.sub ELSE "None"

\* authenticate_socket, websocket.py lines 18-36: the user id, or None
authenticate_socket(token) ==
    IF token.kind = "jwt" /\ token.sub \in Users THEN token.sub ELSE "None"

\* handle_connect, websocket.py lines 38-69
WsConnect(sid, token) ==
    /\ connState[sid] = "new"
    /\ LET user_id == authenticate_socket(token)
       IN  IF user_id = "None"
           THEN /\ connState' = [connState EXCEPT ![sid] = "rejected"]
                /\ UNCHANGED <<active_connections, wsOut>>
           ELSE /\ connState' = [connState EXCEPT ![sid] = "open"]
                /\ active_connections' =
                       active_connections @@ (sid :> [user_id |-> user_id, channels |-> {}])
                /\ wsOut' = [sid |-> sid, event |-> "connected"]
    /\ UNCHANGED <<svcVars, restVars, rooms, wsReceived, appVars, inflight, membership, lastSub, started>>

\* handle_disconnect without the leave_room loop of lines 79-81
WsDisconnect_KeepsRooms(sid) ==
    /\ connState[sid] \in {"open", "closed"}
    /\ connState' = [connState EXCEPT ![sid] = "closed"]
    /\ IF sid \in DOMAIN active_connections
       THEN /\ active_connections' = DropKey(active_connections, sid)
            /\ UNCHANGED rooms
       ELSE UNCHANGED <<rooms, active_connections>>
    /\ UNCHANGED <<svcVars, restVars, wsOut, wsReceived, appVars, inflight, membership, lastSub, started>>

\* handle_disconnect, websocket.py lines 71-89
WsDisconnect(sid) ==
    /\ connState[sid] \in {"open", "closed"}
    /\ connState' = [connState EXCEPT ![sid] = "closed"]
    /\ IF sid \in DOMAIN active_connections
       THEN /\ rooms' = rooms \ {<<ch, sid>> : ch \in active_connections[sid].channels}
            /\ active_connections' = DropKey(active_connections, sid)
       ELSE UNCHANGED <<rooms, active_connections>>
    /\ UNCHANGED <<svcVars, restVars, wsOut, wsReceived, appVars, inflight, membership, lastSub, started>>

\* handle_subscribe with lines 112-113 run before the access check of line 107
WsSubscribe_JoinBeforeCheck(sid, ch, dbOk) ==
    /\ connState[sid] # "new"
    /\ IF sid \notin DOMAIN active_connections
       THEN /\ wsOut' = [sid |-> sid, event |-> "error: Not authenticated"]
            /\ UNCHANGED <<rooms, active_connections, lastSub>>
       ELSE IF ch = NoChannel
       THEN /\ wsOut' = [sid |-> sid, event |-> "error: Channel is required"]
            /\ UNCHANGED <<rooms, active_connections, lastSub>>
       ELSE LET user_id == active_connections[sid].user_id
                granted == verify_channel_access(user_id, ch, dbOk)
            IN  /\ lastSub' = [via |-> "ws", user |-> user_id, channel |-> ch,
                               granted |-> granted, member |-> MemberFor(user_id, ch),
                               failed |-> LookupFailed(user_id, ch, dbOk)]
                /\ IF granted
                   THEN /\ rooms' = rooms \cup {<<ch, sid>>}
                        /\ active_connections' =
                               [active_connections EXCEPT ![sid].channels = @ \cup {ch}]
                        /\ wsOut' = [sid |-> sid, event |-> "subscribed"]
                   ELSE /\ rooms' = rooms \cup {<<ch, sid>>}
                        /\ active_connections' =
                               [active_connections EXCEPT ![sid].channels = @ \cup {ch}]
                        /\ wsOut' = [sid |-> sid, event |-> "error: Access denied to channel"]
    /\ UNCHANGED <<svcVars, restVars, connState, wsReceived, appVars, inflight, membership, started>>

\* handle_subscribe, websocket.py lines 91-124
WsSubscribe(sid, ch, dbOk) ==
    /\ connState[sid] # "new"
    /\ IF sid \notin DOMAIN active_connections
       THEN /\ wsOut' = [sid |-> sid, event |-> "error: Not authenticated"]
            /\ UNCHANGED <<rooms, active_connections, lastSub>>
       ELSE IF ch = NoChannel
       THEN /\ wsOut' = [sid |-> sid, event |-> "error: Channel is required"]
            /\ UNCHANGED <<rooms, active_connections, lastSub>>
       ELSE LET user_id == active_connections[sid].user_id
                granted == verify_channel_access(user_id, ch, dbOk)
            IN  /\ lastSub' = [via |-> "ws", user |-> user_id, channel |-> ch,
                               granted |-> granted, member |-> MemberFor(user_id, ch),
                               failed |-> LookupFailed(user_id, ch, dbOk)]
                /\ IF granted
                   THEN /\ rooms' = rooms \cup {<<ch, sid>>}
                        /\ active_connections' =
                               [active_connections EXCEPT ![sid].channels = @ \cup {ch}]
                        /\ wsOut' = [sid |-> sid, event |-> "subscribed"]
                   ELSE /\ wsOut' = [sid |-> sid, event |-> "error: Access denied to channel"]
                        /\ UNCHANGED <<rooms, active_connections>>
    /\ UNCHANGED <<svcVars, restVars, connState, wsReceived, appVars, inflight, membership, started>>

\* handle_unsubscribe, websocket.py lines 126-154
WsUnsubscribe(sid, ch) ==
    /\ connState[sid] # "new"
    /\ IF sid \notin DOMAIN active_connections
       THEN /\ wsOut' = [sid |-> sid, event |-> "error: Not authenticated"]
            /\ UNCHANGED <<rooms, active_connections>>
       ELSE IF ch = NoChannel
       THEN /\ wsOut' = [sid |-> sid, event |-> "error: Channel is required"]
            /\ UNCHANGED <<rooms, active_connections>>
       ELSE /\ rooms' = rooms \ {<<ch, sid>>}
            /\ active_connections' =
                   [active_connections EXCEPT ![sid].channels = @ \ {ch}]
            /\ wsOut' = [sid |-> sid, event |-> "unsubscribed"]
    /\ UNCHANGED <<svcVars, restVars, connState, wsReceived, appVars, inflight, membership, lastSub, started>>

\* setup_redis_to_websocket_bridge, websocket.py lines 195-229: PubSubService has
\* no method subscribe_pattern, so line 221 raises AttributeError, lines 228-229
\* log it, and redis_message_handler is registered for nothing
AppStart ==
    /\ ~started
    /\ started' = TRUE
    /\ UNCHANGED <<svcVars, wsVars, appVars, restVars, membership, lastSub>>

WsNext ==
    \/ \E sid \in Sids, token \in Tokens : WsConnect(sid, token)
    \/ \E sid \in Sids : WsDisconnect(sid)
    \/ \E sid \in Sids, ch \in AccessChannels, dbOk \in BOOLEAN : WsSubscribe(sid, ch, dbOk)
    \/ \E sid \in Sids, ch \in AccessChannels : WsUnsubscribe(sid, ch)
    \/ \E u \in Users, wid \in Workspaces, active \in BOOLEAN : SetMembership(u, wid, active)

\* no listener thread runs here, so what it would see does not matter
InitWs == Init /\ appCtx = FALSE

SpecWs == InitWs /\ [][WsNext]_vars

\* ---------------------------------------------------------------- REST routes
\* request.get_json() bodies
RestData == {{}, {<<"type", "renamed">>}}

\* publish_message lines 34-38: {**data, 'sender_id': ..., 'timestamp': ...}
MessageData(data, u) ==
    DictSet(DictSet(data, "sender_id", u), "timestamp", DictGet(data, "timestamp", "None"))

\* publish_workspace_message lines 81-86
WorkspaceMessageData(data, u, wid) ==
    DictSet(DictSet(DictSet(data, "sender_id", u), "workspace_id", wid),
            "timestamp", DictGet(data, "timestamp", "None"))

NoSubscribers(ch) == ch \notin DOMAIN subscribers \/ subscribers[ch] = <<>>

\* the response of a request that did not reach PubSubService.publish
Refused(route, status, ch) ==
    [route |-> route, status |-> status, channel |-> ch, member |-> FALSE,
     published |-> FALSE, empty |-> FALSE, redisOk |-> FALSE, failed |-> FALSE]

\* the response of a request whose membership query raised: lines 100-102
QueryFailed(route, ch) == [Refused(route, 500, ch) EXCEPT !.failed = TRUE]

\* the response of a request that called PubSubService.publish, with the facts
\* at the time of the call: the publisher's membership, whether the channel had
\* no subscriber, whether Redis answered
Answered(route, u, ch, m, redisOk) ==
    [route |-> route, status |-> IF PublishReturn(ch, m, redisOk) THEN 200 ELSE 500,
     channel |-> ch, member |-> MemberFor(u, ch), published |-> TRUE,
     empty |-> NoSubscribers(ch), redisOk |-> redisOk, failed |-> FALSE]

\* publish_message, routes/pubsub.py lines 21-54
RestPublish(u, ch, data, redisOk) ==
    /\ IF data = {}
       THEN /\ resp' = Refused("publish", 400, ch)
            /\ UNCHANGED <<inbox, published>>
       ELSE /\ Len(published) < MaxPublish
            /\ PubSubPublish(ch, DictMsg(MessageData(data, u)), redisOk)
            /\ resp' = Answered("publish", u, ch, DictMsg(MessageData(data, u)), redisOk)
    /\ UNCHANGED <<subscribers, redisSubs, running, threads, at95, at98, stopping, appCtx,
                   nsub, track, received, left, joined>>
    /\ UNCHANGED <<wsVars, appVars, user_subscriptions, membership, lastSub, started>>

\* publish_workspace_message, routes/pubsub.py lines 56-102
RestWorkspacePublish(u, wid, data, dbOk, redisOk) ==
    LET ch == <<"workspace", wid>>
        m == DictMsg(WorkspaceMessageData(data, u, wid))
    IN  /\ IF data = {} THEN
               /\ resp' = Refused("workspace_publish", 400, ch)
               /\ UNCHANGED <<inbox, published>>
           ELSE IF QueryRaises(wid, dbOk) THEN
               /\ resp' = QueryFailed("workspace_publish", ch)
               /\ UNCHANGED <<inbox, published>>
           ELSE IF ~ActiveMember(u, wid) THEN
               /\ resp' = Refused("workspace_publish", 403, ch)
               /\ UNCHANGED <<inbox, published>>
           ELSE
               /\ Len(published) < MaxPublish
               /\ PubSubPublish(ch, m, redisOk)
               /\ resp' = Answered("workspace_publish", u, ch, m, redisOk)
        /\ UNCHANGED <<subscribers, redisSubs, running, threads, at95, at98, stopping,
                       appCtx, nsub, track, received, left, joined>>
        /\ UNCHANGED <<wsVars, appVars, user_subscriptions, membership, lastSub, started>>

\* send_user_notification lines 124-132: a dict of seven fixed keys; the default of
\* 'data' is the empty dict, written "{}" here
NotificationData(data, u, target) ==
    {<<"type", "notification">>,
     <<"title", DictGet(data, "title", "Notification")>>,
     <<"message", DictGet(data, "message", "")>>,
     <<"sender_id", u>>,
     <<"user_id", target>>,
     <<"data", DictGet(data, "data", "{}")>>,
     <<"timestamp", DictGet(data, "timestamp", "None")>>}

\* the ids a notification can be addressed to: the users and one that is unknown
Targets == Users \cup {"ghost"}

\* send_user_notification without the target check of lines 118-119
RestNotify_NoTargetCheck(u, target, data, dbOk, redisOk) ==
    LET ch == <<"user", target, "notifications">>
        m == DictMsg(NotificationData(data, u, target))
    IN  /\ IF data = {} THEN
               /\ resp' = Refused("notify", 400, ch)
               /\ UNCHANGED <<inbox, published>>
           ELSE IF ~dbOk THEN
               /\ resp' = Refused("notify", 500, ch)
               /\ UNCHANGED <<inbox, published>>
           ELSE
               /\ Len(published) < MaxPublish
               /\ PubSubPublish(ch, m, redisOk)
               /\ resp' = Answered("notify", u, ch, m, redisOk)
        /\ UNCHANGED <<subscribers, redisSubs, running, threads, at95, at98, stopping,
                       appCtx, nsub, track, received, left, joined>>
        /\ UNCHANGED <<wsVars, appVars, user_subscriptions, membership, lastSub, started>>

\* send_user_notification, routes/pubsub.py lines 104-147; dbOk: User.query.get
\* on line 117 answers
RestNotify(u, target, data, dbOk, redisOk) ==
    LET ch == <<"user", target, "notifications">>
        m == DictMsg(NotificationData(data, u, target))
    IN  /\ IF data = {} THEN
               /\ resp' = Refused("notify", 400, ch)
               /\ UNCHANGED <<inbox, published>>
           ELSE IF ~dbOk THEN
               /\ resp' = Refused("notify", 500, ch)
               /\ UNCHANGED <<inbox, published>>
           ELSE IF target \notin Users THEN
               /\ resp' = Refused("notify", 404, ch)
               /\ UNCHANGED <<inbox, published>>
           ELSE
               /\ Len(published) < MaxPublish
               /\ PubSubPublish(ch, m, redisOk)
               /\ resp' = Answered("notify", u, ch, m, redisOk)
        /\ UNCHANGED <<subscribers, redisSubs, running, threads, at95, at98, stopping,
                       appCtx, nsub, track, received, left, joined>>
        /\ UNCHANGED <<wsVars, appVars, user_subscriptions, membership, lastSub, started>>

\* subscribe_to_channel lines 158-162: the user is listed once per channel
RecordSubscription(ch, u) ==
    IF ch \notin DOMAIN user_subscriptions THEN user_subscriptions @@ (ch :> <<u>>)
    ELSE IF u \in Range(user_subscriptions[ch]) THEN user_subscriptions
    ELSE [user_subscriptions EXCEPT ![ch] = Append(@, u)]

\* subscribe_to_channel, routes/pubsub.py lines 149-183; the closure
\* channel_callback of lines 165-167 is a new callable on every request
RestSubscribe(u, ch, redisOk) ==
    /\ nsub < MaxSubscribe
    /\ user_subscriptions' = RecordSubscription(ch, u)
    /\ PubSubSubscribeAndStart(ch, [owner |-> u, n |-> nsub + 1], redisOk)
    /\ lastSub' = [via |-> "rest", user |-> u, channel |-> ch, granted |-> TRUE,
                   member |-> MemberFor(u, ch), failed |-> FALSE]
    /\ resp' = Refused("subscribe", 200, ch)
    /\ UNCHANGED <<inbox, at95, at98, stopping, appCtx, track, published, received>>
    /\ UNCHANGED <<wsVars, appVars, membership, started>>

RestNext ==
    \/ \E u \in Users, ch \in ServiceChannels, ok \in BOOLEAN : RestSubscribe(u, ch, ok)
    \/ \E u \in Users, ch \in ServiceChannels, data \in RestData, ok \in BOOLEAN :
           RestPublish(u, ch, data, ok)
    \/ \E u \in Users, wid \in Workspaces \cup {""}, data \in RestData,
          dbOk \in BOOLEAN, ok \in BOOLEAN : RestWorkspacePublish(u, wid, data, dbOk, ok)
    \/ \E u \in Users, wid \in Workspaces, active \in BOOLEAN : SetMembership(u, wid, active)
    \/ Listener

SpecRest == Init /\ [][RestNext]_vars

\* ---------------------------------------------------------------- the whole path
\* The application starts, sessions connect and subscribe, messages are published
\* through the service and its listener runs.
BridgeSids == {"s1"}

BridgeNext ==
    \/ AppStart
    \/ \E sid \in BridgeSids, u \in Users : WsConnect(sid, [kind |-> "jwt", sub |-> u])
    \/ \E sid \in BridgeSids, ch \in ServiceChannels : WsSubscribe(sid, ch, TRUE)
    \/ \E sid \in BridgeSids : WsDisconnect(sid)
    \/ \E u \in Users, wid \in Workspaces, active \in BOOLEAN : SetMembership(u, wid, active)
    \/ \E ch \in ServiceChannels : nsub < MaxSubscribe /\ Subscribe(ch, CbA, TRUE)
    \/ \E ch \in ServiceChannels, m \in Payloads :
           Len(published) < MaxPublish /\ Publish(ch, m, TRUE)
    \/ Listener

SpecBridge == Init /\ [][BridgeNext]_vars

\* ---------------------------------------------------------------- profile cache
\* routes/user.py for one user; a profile is written as the version of the row
\* it was built from. Requests run on threads of their own, line by line.
NotProfile == <<svcVars, wsVars, restVars, membership, lastSub, started, singletonVars>>

\* CacheService.get_cached, cache_service.py lines 20-33: None on a miss and on
\* a cache error
get_cached(cacheOk) == IF cacheOk THEN cacheEntry ELSE <<>>

\* CacheService.set_cached, lines 35-47: errors are swallowed
set_cached(value, cacheOk) == IF cacheOk THEN <<value>> ELSE cacheEntry

\* CacheService.delete_cached, lines 49-59: errors are swallowed
delete_cached(cacheOk) == IF cacheOk THEN <<>> ELSE cacheEntry

\* get_profile lines 18-27: the cache read, and the answer on a hit
GetProfileRead(cacheOk) ==
    /\ LET cached_profile == get_cached(cacheOk)
       IN  IF cached_profile # <<>>
           THEN /\ lastGet' = [value |-> cached_profile[1], floor |-> acked, hit |-> TRUE]
                /\ UNCHANGED profileReads
           ELSE /\ Cardinality(profileReads) < MaxReaders
                /\ profileReads' = profileReads \cup
                       {[line |-> 30, value |-> 0, floor |-> acked]}
                /\ UNCHANGED lastGet
    /\ UNCHANGED <<userRow, cacheEntry, profileWrite, acked>>
    /\ UNCHANGED NotProfile

\* get_profile lines 30-41: the row and the workspaces are read
GetProfileQuery(r) ==
    /\ r \in profileReads /\ r.line = 30
    /\ profileReads' = (profileReads \ {r}) \cup {[r EXCEPT !.line = 44, !.value = userRow]}
    /\ UNCHANGED <<userRow, cacheEntry, profileWrite, acked, lastGet>>
    /\ UNCHANGED NotProfile

\* get_profile lines 44-48: the profile is cached for 900 s and returned
GetProfileStore(r, cacheOk) ==
    /\ r \in profileReads /\ r.line = 44
    /\ cacheEntry' = set_cached(r.value, cacheOk)
    /\ lastGet' = [value |-> r.value, floor |-> r.floor, hit |-> FALSE]
    /\ profileReads' = profileReads \ {r}
    /\ UNCHANGED <<userRow, profileWrite, acked>>
    /\ UNCHANGED NotProfile

\* update_profile lines 58-102: the fields are set and committed
UpdateProfileCommit ==
    /\ profileWrite = <<>>
    /\ userRow < MaxUpdate
    /\ userRow' = userRow + 1
    /\ profileWrite' = <<[route |-> "profile", version |-> userRow + 1]>>
    /\ UNCHANGED <<cacheEntry, profileReads, acked, lastGet>>
    /\ UNCHANGED NotProfile

\* update_profile lines 105-115: the cache keys are deleted, the request returns
UpdateProfileInvalidate(cacheOk) ==
    /\ profileWrite # <<>> /\ profileWrite[1].route = "profile"
    /\ cacheEntry' = delete_cached(cacheOk)
    /\ acked' = profileWrite[1].version
    /\ profileWrite' = <<>>
    /\ UNCHANGED <<userRow, profileReads, lastGet>>
    /\ UNCHANGED NotProfile

\* update_settings lines 166-182
UpdateSettingsCommit ==
    /\ profileWrite = <<>>
    /\ userRow < MaxUpdate
    /\ userRow' = userRow + 1
    /\ profileWrite' = <<[route |-> "settings", version |-> userRow + 1]>>
    /\ UNCHANGED <<cacheEntry, profileReads, acked, lastGet>>
    /\ UNCHANGED NotProfile

\* update_settings lines 185-198
UpdateSettingsInvalidate(cacheOk) ==
    /\ profileWrite # <<>> /\ profileWrite[1].route = "settings"
    /\ cacheEntry' = delete_cached(cacheOk)
    /\ acked' = profileWrite[1].version
    /\ profileWrite' = <<>>
    /\ UNCHANGED <<userRow, profileReads, lastGet>>
    /\ UNCHANGED NotProfile

\* the 900 s of line 44 are over: the entry is gone
CacheExpire ==
    /\ cacheEntry # <<>>
    /\ cacheEntry' = <<>>
    /\ UNCHANGED <<userRow, profileReads, profileWrite, acked, lastGet>>
    /\ UNCHANGED NotProfile

ProfileNext ==
    \/ \E cacheOk \in BOOLEAN : GetProfileRead(cacheOk)
    \/ \E r \in profileReads : GetProfileQuery(r)
    \/ \E r \in profileReads, cacheOk \in BOOLEAN : GetProfileStore(r, cacheOk)
    \/ UpdateProfileCommit
    \/ \E cacheOk \in BOOLEAN : UpdateProfileInvalidate(cacheOk)
    \/ UpdateSettingsCommit
    \/ \E cacheOk \in BOOLEAN : UpdateSettingsInvalidate(cacheOk)
    \/ CacheExpire

SpecProfile == InitWs /\ [][ProfileNext]_vars

\* ---------------------------------------------------------------- the singleton
\* get_pubsub_service, pubsub_service.py lines 185-193, called by request threads
NotSingleton == <<svcVars, wsVars, restVars, membership, lastSub, started, profileVars>>

\* lines 190 and 193 when the global is set: the instance is returned
GetServiceReturnSet ==
    /\ ncalls < MaxCalls
    /\ instance # 0
    /\ ncalls' = ncalls + 1
    /\ handed' = handed \cup {instance}
    /\ UNCHANGED <<instance, at191, at193, created>>
    /\ UNCHANGED NotSingleton

\* line 190: _pubsub_service is None, the caller goes on to line 191
GetServiceSeesNone ==
    /\ ncalls < MaxCalls
    /\ instance = 0
    /\ ncalls' = ncalls + 1
    /\ at191' = at191 + 1
    /\ UNCHANGED <<instance, at193, created, handed>>
    /\ UNCHANGED NotSingleton

\* line 191: PubSubService() is constructed (lines 14-20) and stored in the global
GetServiceCreate ==
    /\ at191 > 0
    /\ at191' = at191 - 1
    /\ created' = created + 1
    /\ instance' = created + 1
    /\ at193' = at193 + 1
    /\ UNCHANGED <<handed, ncalls>>
    /\ UNCHANGED NotSingleton

\* line 193: return _pubsub_service, the global as it is now
GetServiceReturn ==
    /\ at193 > 0
    /\ at193' = at193 - 1
    /\ handed' = handed \cup {instance}
    /\ UNCHANGED <<instance, at191, created, ncalls>>
    /\ UNCHANGED NotSingleton

SingletonNext ==
    \/ GetServiceReturnSet
    \/ GetServiceSeesNone
    \/ GetServiceCreate
    \/ GetServiceReturn

SpecSingleton == Init /\ [][SingletonNext]_vars

\* ---------------------------------------------------------------- handler threads
\* async_mode='threading' (__init__.py line 23): every event runs its handler on
\* a thread of its own, so the handlers of one connection run line by line
\* beside each other.
InFlight(sid, handler) == {h \in inflight : h.sid = sid /\ h.handler = handler}

Handler(sid, handler, line, ch, channels) ==
    [sid |-> sid, handler |-> handler, line |-> line, channel |-> ch, channels |-> channels]

\* the user each socket logs in as
LeaveUser == [sid \in Sids |-> IF sid = "s1" THEN "u1" ELSE "u2"]

\* the channels a socket asks for: the notification channels of u1 and of u2
HandlerChannels == {N1, N2}

\* handle_subscribe lines 94-109: the checks up to the access decision
HandleSubscribeCheck(sid, ch, dbOk) ==
    /\ connState[sid] = "open"
    /\ InFlight(sid, "subscribe") = {}
    /\ IF sid \notin DOMAIN active_connections
       THEN /\ wsOut' = [sid |-> sid, event |-> "error: Not authenticated"]
            /\ UNCHANGED <<inflight, lastSub>>
       ELSE LET user_id == active_connections[sid].user_id
                granted == verify_channel_access(user_id, ch, dbOk)
            IN  /\ lastSub' = [via |-> "ws", user |-> user_id, channel |-> ch,
                               granted |-> granted, member |-> MemberFor(user_id, ch),
                               failed |-> LookupFailed(user_id, ch, dbOk)]
                /\ IF granted
                   THEN /\ inflight' = inflight \cup {Handler(sid, "subscribe", 112, ch, {})}
                        /\ UNCHANGED wsOut
                   ELSE /\ wsOut' = [sid |-> sid, event |-> "error: Access denied to channel"]
                        /\ UNCHANGED inflight
    /\ UNCHANGED <<svcVars, restVars, active_connections, rooms, connState, wsReceived, appVars,
                   membership, started>>

\* handle_subscribe line 112: join_room(channel)
HandleSubscribeJoin(h) ==
    /\ h \in inflight /\ h.handler = "subscribe" /\ h.line = 112
    /\ rooms' = rooms \cup {<<h.channel, h.sid>>}
    /\ inflight' = (inflight \ {h}) \cup {[h EXCEPT !.line = 113]}
    /\ UNCHANGED <<svcVars, restVars, active_connections, connState, wsOut, wsReceived, appVars,
                   membership, lastSub, started>>

\* handle_subscribe lines 113-120, or the KeyError of line 113 caught on 122-124
HandleSubscribeRecord(h) ==
    /\ h \in inflight /\ h.handler = "subscribe" /\ h.line = 113
    /\ IF h.sid \in DOMAIN active_connections
       THEN /\ active_connections' =
                   [active_connections EXCEPT ![h.sid].channels = @ \cup {h.channel}]
            /\ wsOut' = [sid |-> h.sid, event |-> "subscribed"]
       ELSE /\ wsOut' = [sid |-> h.sid, event |-> "error: Failed to subscribe to channel"]
            /\ UNCHANGED active_connections
    /\ inflight' = inflight \ {h}
    /\ UNCHANGED <<svcVars, restVars, rooms, connState, wsReceived, appVars, membership, lastSub,
                   started>>

\* handle_unsubscribe lines 129-139
HandleUnsubscribeCheck(sid, ch) ==
    /\ connState[sid] = "open"
    /\ InFlight(sid, "unsubscribe") = {}
    /\ IF sid \notin DOMAIN active_connections
       THEN /\ wsOut' = [sid |-> sid, event |-> "error: Not authenticated"]
            /\ UNCHANGED inflight
       ELSE /\ inflight' = inflight \cup {Handler(sid, "unsubscribe", 141, ch, {})}
            /\ UNCHANGED wsOut
    /\ UNCHANGED <<svcVars, restVars, active_connections, rooms, connState, wsReceived, appVars,
                   membership, lastSub, started>>

\* handle_unsubscribe line 141: leave_room(channel)
HandleUnsubscribeLeave(h) ==
    /\ h \in inflight /\ h.handler = "unsubscribe" /\ h.line = 141
    /\ rooms' = rooms \ {<<h.channel, h.sid>>}
    /\ inflight' = (inflight \ {h}) \cup {[h EXCEPT !.line = 142]}
    /\ UNCHANGED <<svcVars, restVars, active_connections, connState, wsOut, wsReceived, appVars,
                   membership, lastSub, started>>

\* handle_unsubscribe lines 142-149, or the KeyError of line 142 caught on 151-153
HandleUnsubscribeDiscard(h) ==
    /\ h \in inflight /\ h.handler = "unsubscribe" /\ h.line = 142
    /\ IF h.sid \in DOMAIN active_connections
       THEN /\ active_connections' =
                   [active_connections EXCEPT ![h.sid].channels = @ \ {h.channel}]
            /\ wsOut' = [sid |-> h.sid, event |-> "unsubscribed"]
       ELSE /\ wsOut' = [sid |-> h.sid, event |-> "error: Failed to unsubscribe from channel"]
            /\ UNCHANGED active_connections
    /\ inflight' = inflight \ {h}
    /\ UNCHANGED <<svcVars, restVars, rooms, connState, wsReceived, appVars, membership, lastSub,
                   started>>

\* handle_disconnect lines 74-78: the copy of the session's channel set
HandleDisconnectCopy(sid) ==
    /\ connState[sid] = "open"
    /\ connState' = [connState EXCEPT ![sid] = "closed"]
    /\ inflight' = IF sid \in DOMAIN active_connections
                   THEN inflight \cup {Handler(sid, "disconnect", 79, NoChannel,
                                              active_connections[sid].channels)}
                   ELSE inflight
    /\ UNCHANGED <<svcVars, restVars, active_connections, rooms, wsOut, wsReceived, appVars,
                   membership, lastSub, started>>

\* handle_disconnect lines 79-81: leave_room for every copied channel
HandleDisconnectLeave(h) ==
    /\ h \in inflight /\ h.handler = "disconnect" /\ h.line = 79
    /\ rooms' = rooms \ {<<ch, h.sid>> : ch \in h.channels}
    /\ inflight' = (inflight \ {h}) \cup {[h EXCEPT !.line = 84]}
    /\ UNCHANGED <<svcVars, restVars, active_connections, connState, wsOut, wsReceived, appVars,
                   membership, lastSub, started>>

\* handle_disconnect line 84: del active_connections[request.sid]
HandleDisconnectDelete(h) ==
    /\ h \in inflight /\ h.handler = "disconnect" /\ h.line = 84
    /\ active_connections' = DropKey(active_connections, h.sid)
    /\ inflight' = inflight \ {h}
    /\ UNCHANGED <<svcVars, restVars, rooms, connState, wsOut, wsReceived, appVars, membership,
                   lastSub, started>>

HandlerNext ==
    \/ \E sid \in Sids : WsConnect(sid, [kind |-> "jwt", sub |-> LeaveUser[sid]])
    \/ \E sid \in Sids, ch \in HandlerChannels : HandleSubscribeCheck(sid, ch, TRUE)
    \/ \E h \in inflight : HandleSubscribeJoin(h)
    \/ \E h \in inflight : HandleSubscribeRecord(h)
    \/ \E sid \in Sids, ch \in HandlerChannels : HandleUnsubscribeCheck(sid, ch)
    \/ \E h \in inflight : HandleUnsubscribeLeave(h)
    \/ \E h \in inflight : HandleUnsubscribeDiscard(h)
    \/ \E sid \in Sids : HandleDisconnectCopy(sid)
    \/ \E h \in inflight : HandleDisconnectLeave(h)
    \/ \E h \in inflight : HandleDisconnectDelete(h)

SpecHandlers == InitWs /\ [][HandlerNext]_vars

\* ---------------------------------------------------------------- leaving
\* Callers and sockets that leave channels, joined to them or not.
LeaveChannels == {W1, N1}

LeaveNext ==
    \/ \E cb \in DirectCallbacks, ok \in BOOLEAN :
           nsub < MaxSubscribe /\ Subscribe(W1, cb, ok)
    \/ \E cb \in DirectCallbacks \cup {None}, ok \in BOOLEAN : Unsubscribe(W1, cb, ok)
    \/ \E cb \in DirectCallbacks : UnsubscribeUnknown(W1, cb)
    \/ \E sid \in Sids : WsConnect(sid, [kind |-> "jwt", sub |-> LeaveUser[sid]])
    \/ \E sid \in Sids, ch \in LeaveChannels : WsSubscribe(sid, ch, TRUE)
    \/ \E sid \in Sids, ch \in LeaveChannels : WsUnsubscribe(sid, ch)

InitLeave == InitTrack /\ appCtx = FALSE

SpecNonMember == InitLeave /\ [][LeaveNext]_vars

\* ---------------------------------------------------------------- domain events
\* entity ids, written as the text the f-strings of lines 150-182 produce
EventIds == {"e1", "e2"}

\* the update_data, notification or comment_data a caller hands over
EventData ==
    {{<<"name", "n">>},
     {<<"type", "custom">>, <<"name", "n">>},
     {<<"workspace_id", "zz">>, <<"page_id", "zz">>, <<"block_id", "zz">>}}

\* {'type': 'update', idKey: id, **update_data}: the keys of update_data win
UpdateDict(idKey, id, update_data) ==
    update_data \cup
        {p \in {<<"type", "update">>, <<idKey, id>>} : p[1] \notin DictKeys(update_data)}

\* publish_workspace_update, lines 148-155
PublishWorkspaceUpdate(id, update_data, redisOk) ==
    /\ Len(published) < MaxPublish
    /\ Publish(<<"workspace", id>>, DictMsg(UpdateDict("workspace_id", id, update_data)), redisOk)

\* publish_user_notification, lines 157-160
PublishUserNotification(id, notification, redisOk) ==
    /\ Len(published) < MaxPublish
    /\ Publish(<<"user", id, "notifications">>, DictMsg(notification), redisOk)

\* publish_page_update, lines 162-169
PublishPageUpdate(id, update_data, redisOk) ==
    /\ Len(published) < MaxPublish
    /\ Publish(<<"page", id>>, DictMsg(UpdateDict("page_id", id, update_data)), redisOk)

\* publish_block_update, lines 171-178
PublishBlockUpdate(id, update_data, redisOk) ==
    /\ Len(published) < MaxPublish
    /\ Publish(<<"block", id>>, DictMsg(UpdateDict("block_id", id, update_data)), redisOk)

\* publish_comment_update, lines 180-183
PublishCommentUpdate(id, comment_data, redisOk) ==
    /\ Len(published) < MaxPublish
    /\ Publish(<<"page", id, "comments">>, DictMsg(comment_data), redisOk)

DispatchNext ==
    \/ \E id \in EventIds, d \in EventData, ok \in BOOLEAN : PublishWorkspaceUpdate(id, d, ok)
    \/ \E id \in EventIds, d \in EventData, ok \in BOOLEAN : PublishUserNotification(id, d, ok)
    \/ \E id \in EventIds, d \in EventData, ok \in BOOLEAN : PublishPageUpdate(id, d, ok)
    \/ \E id \in EventIds, d \in EventData, ok \in BOOLEAN : PublishBlockUpdate(id, d, ok)
    \/ \E id \in EventIds, d \in EventData, ok \in BOOLEAN : PublishCommentUpdate(id, d, ok)

SpecDispatch == Init /\ [][DispatchNext]_vars

\* ---------------------------------------------------------------- payloads
\* what a caller of publish() can hand over: a dict, a dict json.dumps rejects
\* (a datetime or a set among its values), a plain str
AnyPayloads ==
    {DictMsg({<<"type", "renamed">>}), BadDictMsg({<<"at", "datetime">>}), StrMsg("hello")}

\* One caller subscribes and publishes payloads of every kind.
PayloadNext ==
    \/ \E ch \in ServiceChannels : nsub < MaxSubscribe /\ Subscribe(ch, CbA, TRUE)
    \/ \E ch \in ServiceChannels, m \in AnyPayloads, ok \in BOOLEAN :
           Len(published) < MaxPublish /\ Publish(ch, m, ok)
    \/ Listener

SpecPayload == Init /\ [][PayloadNext]_vars

\* ---------------------------------------------------------------- publish routes
\* request bodies that carry the keys the routes set or read themselves
StampData ==
    {{<<"type", "renamed">>},
     {<<"type", "renamed">>, <<"sender_id", "u2">>},
     {<<"type", "renamed">>, <<"timestamp", "t1">>},
     {<<"title", "hello">>, <<"channel", "page:p1">>}}

\* The three publish routes, called by users whose memberships change.
StampNext ==
    \/ \E u \in Users, ch \in ServiceChannels, data \in StampData \cup {{}}, ok \in BOOLEAN :
           RestPublish(u, ch, data, ok)
    \/ \E u \in Users, wid \in Workspaces, data \in StampData, ok \in BOOLEAN :
           RestWorkspacePublish(u, wid, data, TRUE, ok)
    \/ \E u \in Users, target \in Targets, data \in StampData \cup {{}},
          dbOk \in BOOLEAN, ok \in BOOLEAN : RestNotify(u, target, data, dbOk, ok)
    \/ \E u \in Users, wid \in Workspaces, active \in BOOLEAN : SetMembership(u, wid, active)

SpecStamp == InitWs /\ [][StampNext]_vars

\* ---------------------------------------------------------------- notifications
\* request bodies of a notification: none, and one with a title
NotifyBodies == {{}, {<<"title", "hello">>}}

\* The notification route alone, called by users whose memberships change.
NotifyNext ==
    \/ \E u \in Users, target \in Targets, data \in NotifyBodies,
          dbOk \in BOOLEAN, ok \in BOOLEAN : RestNotify(u, target, data, dbOk, ok)
    \/ \E u \in Users, wid \in Workspaces, active \in BOOLEAN : SetMembership(u, wid, active)

SpecNotify == InitWs /\ [][NotifyNext]_vars

\* ---------------------------------------------------------------- guarded requests
\* the keys a guarded subscribe is tried on: a workspace channel, one with a
\* workspace id the query rejects, and a user channel
GuardChannels == {W1, BareWorkspace, N1}

\* One session and the workspace publish route, with a database that may fail.
GuardNext ==
    \/ \E sid \in BridgeSids, u \in Users : WsConnect(sid, [kind |-> "jwt", sub |-> u])
    \/ \E sid \in BridgeSids : WsDisconnect(sid)
    \/ \E sid \in BridgeSids, ch \in GuardChannels, dbOk \in BOOLEAN :
           WsSubscribe(sid, ch, dbOk)
    \/ \E u \in Users, wid \in Workspaces \cup {""}, data \in RestData,
          dbOk \in BOOLEAN, ok \in BOOLEAN : RestWorkspacePublish(u, wid, data, dbOk, ok)
    \/ \E u \in Users, wid \in Workspaces, active \in BOOLEAN : SetMembership(u, wid, active)

SpecGuard == InitWs /\ [][GuardNext]_vars

\* ================================================================ claims
\* the user a channel key user:<U>:<suffix> belongs to
IsUserChannel(ch) == Len(ch) >= 3 /\ ch[1] = "user"
OwnerOf(ch) == ch[2]

IsWorkspaceKey(ch) == Len(ch) >= 2 /\ ch[1] = "workspace" /\ ch[2] \in Workspaces

\* the fan-out of message id is over: it waits nowhere and no listener holds it
FanOutOver(id) ==
    /\ \A k \in 1..Len(inbox) : inbox[k].id # id
    /\ \A t \in DOMAIN threads : threads[t].msg.id # id

\* C1: however often the same callback was subscribed to a channel, one message
\* published on the channel is handed to it no more than once.
C1_NoDuplicateDelivery ==
    \A cb \in DOMAIN received :
        \A id \in 1..Len(published) : Count(received[cb], id) <= 1

\* C2: on every entry point a subscribe to a workspace channel is granted exactly
\* when the user is an active member of the workspace at that moment.
C2_SubscribeGate ==
    (lastSub.via # "none" /\ IsWorkspaceKey(lastSub.channel))
        => (lastSub.granted <=> lastSub.member)

\* C4: on every publish route, a publish to a workspace channel reaches
\* PubSubService.publish only for an active member of the workspace.
C4_PublishAuthorized ==
    (resp.published /\ IsWorkspaceKey(resp.channel)) => resp.member

\* C5: a publish to a channel without subscribers succeeds: publish() reports
\* success and the route answers 200.
C5_EmptyChannelPublishSucceeds ==
    /\ \A id \in 1..Len(published) :
           (published[id].sent /\ published[id].subsAt = <<>>) => published[id].ok
    /\ (resp.published /\ resp.empty /\ resp.redisOk) => resp.status = 200

\* C6: once the application has started, a message published through the service
\* reaches every session that was in the channel's room at the publish and still
\* is, by the time the message waits nowhere any more.
C6_EndToEndFanOut ==
    \A id \in 1..Len(published) :
        \A sid \in published[id].roomAt :
            ( /\ published[id].started
              /\ published[id].sent
              /\ FanOutOver(id)
              /\ sid \in DOMAIN active_connections
              /\ <<published[id].channel, sid>> \in rooms )
            => id \in Range(wsReceived[sid])

\* C7: a callback that unsubscribed from a channel (and did not subscribe again)
\* is handed no message published on it afterwards.
C7_LeaveStopsDelivery ==
    \A cb \in DOMAIN received :
        \A i \in 1..Len(received[cb]) : cb \notin published[received[cb][i]].left

\* C8: a callback is handed a message only if it has been subscribed to the
\* channel the message was published on.
C8_ChannelIsolation ==
    \A cb \in DOMAIN received :
        \A i \in 1..Len(received[cb]) :
            <<published[received[cb][i]].channel, cb>> \in joined

\* a message of workspace:w1 went to its subscriber and its fan-out is over, while
\* a callback subscribed to user:u1:notifications alone got nothing
C8_Witness ==
    /\ Len(published) >= 1
    /\ published[1].channel = W1
    /\ FanOutOver(1)
    /\ \E cb \in DOMAIN received : 1 \in Range(received[cb])
    /\ N1 \in DOMAIN subscribers
    /\ \E other \in Range(subscribers[N1]) :
           <<W1, other>> \notin joined /\ Recv(other) = <<>>

\* C9: when a callback raises during the fan-out of a message, every callback
\* subscribed to the channel still gets the message.
C9_FanOutSurvivesCallbackError ==
    \A id \in 1..Len(published) :
        LET ch == published[id].channel
        IN  ( /\ FanOutOver(id)
              /\ \E bad \in DOMAIN received : bad.owner = "bad" /\ id \in Range(received[bad])
              /\ ch \in DOMAIN subscribers
              /\ subscribers[ch] = published[id].subsAt )
            => \A cb \in Range(published[id].subsAt) : id \in Range(Recv(cb))

\* C10: a callback that gets two messages of one channel gets them in the order
\* of their publish calls.
C10_PerChannelFifo ==
    \A cb \in DOMAIN received :
        \A i, j \in 1..Len(received[cb]) :
            (i < j /\ published[received[cb][i]].channel = published[received[cb][j]].channel)
                => received[cb][i] <= received[cb][j]

\* a key of one of the two known shapes: user:<uid>:<suffix> or
\* workspace:<wid>[:<suffix>] with a workspace id that is not empty
KnownPattern(ch) ==
    \/ IsUserChannel(ch)
    \/ (Len(ch) >= 2 /\ ch[1] = "workspace" /\ ch[2] # "")

\* C11: a WebSocket subscribe to a channel key of no known shape is denied, and
\* no session is ever joined to such a key.
C11_DefaultDeny ==
    /\ (lastSub.via = "ws" /\ ~KnownPattern(lastSub.channel)) => ~lastSub.granted
    /\ \A r \in rooms : KnownPattern(r[1])
    /\ \A sid \in DOMAIN active_connections :
           \A ch \in active_connections[sid].channels : KnownPattern(ch)

\* u1, joined to its own notification channel and an active member of w1, was
\* just refused on page:p1 and is joined to nothing else
C11_Witness ==
    /\ lastSub.via = "ws" /\ lastSub.user = "u1" /\ lastSub.channel = P1
    /\ ~lastSub.granted
    /\ <<"u1", "w1">> \in membership
    /\ \E sid \in DOMAIN active_connections :
           /\ wsOut = [sid |-> sid, event |-> "error: Access denied to channel"]
           /\ active_connections[sid].user_id = "u1"
           /\ active_connections[sid].channels = {N1}
           /\ {r \in rooms : r[2] = sid} = {<<N1, sid>>}

\* C12: when the membership query of an access decision raises, the subscribe it
\* guards is denied and joins the session to nothing, and the workspace publish
\* it guards is answered with an error and publishes nothing.
C12_FailClosed ==
    /\ [](lastSub.failed => ~lastSub.granted)
    /\ [](resp.failed => (~resp.published /\ resp.status # 200))
    /\ [][(lastSub' # lastSub /\ lastSub'.failed) =>
               (/\ rooms' = rooms
                /\ active_connections' = active_connections
                /\ wsOut'.event = "error: Access denied to channel")]_vars
    /\ [][(resp' # resp /\ resp'.failed) =>
               (published' = published /\ inbox' = inbox)]_vars

\* u1 is an active member of w1, yet with the query raising its subscribe to
\* workspace:w1 was denied and its workspace publish published nothing
C12_Witness ==
    /\ <<"u1", "w1">> \in membership
    /\ lastSub.via = "ws" /\ lastSub.user = "u1" /\ lastSub.channel = W1
    /\ lastSub.failed /\ lastSub.member /\ ~lastSub.granted
    /\ \A r \in rooms : r[1] # W1
    /\ resp.route = "workspace_publish" /\ resp.channel = W1 /\ resp.failed
    /\ published = <<>>

\* the channel user:<uid>:notifications of the user of session sid
OwnNotifications(sid) == <<"user", active_connections[sid].user_id, "notifications">>

\* session sid subscribes to its user's own notification channel and is joined
SubscribesToOwn(sid) ==
    /\ WsSubscribe(sid, OwnNotifications(sid), TRUE)
    /\ wsOut' = [sid |-> sid, event |-> "subscribed"]
    /\ <<OwnNotifications(sid), sid>> \in rooms'

\* C13: a denied WebSocket subscribe changes neither the rooms, nor the session's
\* channel set, nor the service's subscribers, nor the connection; it emits the
\* error to the caller, and until the client disconnects the session can still
\* subscribe to its own channel.
C13_DeniedSubscribeNoEffect ==
    /\ [][(lastSub' # lastSub /\ lastSub'.via = "ws" /\ ~lastSub'.granted) =>
               (/\ rooms' = rooms
                /\ active_connections' = active_connections
                /\ subscribers' = subscribers
                /\ connState' = connState
                /\ wsOut'.event = "error: Access denied to channel"
                /\ wsOut'.sid \in DOMAIN active_connections'
                /\ connState'[wsOut'.sid] = "open")]_vars
    /\ [](\A sid \in Sids :
              (/\ connState[sid] = "open"
               /\ wsOut = [sid |-> sid, event |-> "error: Access denied to channel"])
                  => (sid \in DOMAIN active_connections /\ ENABLED SubscribesToOwn(sid)))

\* u2, no member of w1 and joined to its own notification channel, was just
\* refused on workspace:w1 and is still joined to that one channel alone
C13_Witness ==
    /\ lastSub = [via |-> "ws", user |-> "u2", channel |-> W1, granted |-> FALSE,
                  member |-> FALSE, failed |-> FALSE]
    /\ \E sid \in DOMAIN active_connections :
           /\ wsOut = [sid |-> sid, event |-> "error: Access denied to channel"]
           /\ active_connections[sid] = [user_id |-> "u2", channels |-> {N2}]
           /\ {r \in rooms : r[2] = sid} = {<<N2, sid>>}
           /\ connState[sid] = "open"

\* C14: a connection whose token is missing, undecodable or names no user is
\* rejected: it never has an entry in active_connections and is in no room, every
\* entry of active_connections is an open connection of an existing user, and a
\* subscribe or unsubscribe from a rejected connection is answered with
\* 'Not authenticated' and changes nothing.
C14_FailedAuthNoState ==
    /\ [](\A sid \in Sids :
              connState[sid] = "rejected" =>
                  (sid \notin DOMAIN active_connections /\ \A r \in rooms : r[2] # sid))
    /\ [](\A sid \in DOMAIN active_connections :
              active_connections[sid].user_id \in Users /\ connState[sid] = "open")
    /\ [][\A sid \in Sids :
              (connState[sid] = "new" /\ connState'[sid] = "rejected") =>
                  (active_connections' = active_connections /\ rooms' = rooms)]_vars
    /\ [][\A sid \in Sids :
              (connState[sid] = "rejected" /\ wsOut' # wsOut /\ wsOut'.sid = sid) =>
                  (/\ wsOut'.event = "error: Not authenticated"
                   /\ active_connections' = active_connections
                   /\ rooms' = rooms
                   /\ lastSub' = lastSub)]_vars

\* s1 was rejected at connect and its later request was answered with
\* 'Not authenticated', while s2 is connected and joined to a channel
C14_Witness ==
    /\ connState["s1"] = "rejected"
    /\ wsOut = [sid |-> "s1", event |-> "error: Not authenticated"]
    /\ "s1" \notin DOMAIN active_connections
    /\ "s2" \in DOMAIN active_connections
    /\ rooms = {<<N1, "s2">>}

\* a disconnect signal for sid that changes something
DisconnectChanges(sid) == WsDisconnect(sid) /\ vars' # vars

C16_FailedSinkEvicted ==
    \A id \in 1..Len(published) :
        \A cb \in DOMAIN received :
            ( /\ Raises(cb)
              /\ id \in Range(received[cb])
              /\ FanOutOver(id)
              /\ nsub = Len(published[id].subsAt) )
            => /\ published[id].ok
               /\ \/ published[id].channel \notin DOMAIN subscribers
                  \/ cb \notin Range(subscribers[published[id].channel])

\* the value of publish() read as a number: Python's True is 1 and False is 0
ReturnedCount(id) == IF published[id].ok THEN 1 ELSE 0

\* C17: what a publish that reached Redis returns equals the number of callbacks
\* subscribed to the channel at the moment of the call.
C17_DeliveredCount ==
    \A id \in 1..Len(published) :
        published[id].sent => ReturnedCount(id) = Len(published[id].subsAt)

\* the channel key as the string a message would carry
ChannelName(ch) ==
    IF Len(ch) = 2 THEN "workspace:w1"
    ELSE IF ch[2] = "u1" THEN "user:u1:notifications" ELSE "user:u2:notifications"

\* the dict that the last publish call was handed
LastPublished == published'[Len(published')].msg.d

\* dict d names u as the sender
SenderStamped(d, u) == DictGet(d, "sender_id", "None") = u

\* dict d names u as the sender and ch as the channel and has a timestamp
Stamped(d, u, ch) ==
    /\ SenderStamped(d, u)
    /\ DictGet(d, "channel", "None") = ChannelName(ch)
    /\ DictGet(d, "timestamp", "None") # "None"

\* C18: the message each publish route hands to PubSubService.publish names the
\* authenticated publisher as sender_id, whatever the body said, and carries the
\* target channel and a timestamp.
C18_SenderStamping ==
    /\ [][\A u \in Users, ch \in ServiceChannels, data \in StampData, ok \in BOOLEAN :
              (RestPublish(u, ch, data, ok) /\ published' # published)
                  => Stamped(LastPublished, u, ch)]_vars
    /\ [][\A u \in Users, wid \in Workspaces, data \in StampData, ok \in BOOLEAN :
              (RestWorkspacePublish(u, wid, data, TRUE, ok) /\ published' # published)
                  => Stamped(LastPublished, u, <<"workspace", wid>>)]_vars
    /\ [][\A u \in Users, target \in Users, data \in StampData, ok \in BOOLEAN :
              (RestNotify(u, target, data, TRUE, ok) /\ published' # published)
                  => Stamped(LastPublished, u, <<"user", target, "notifications">>)]_vars

\* C19: a publish of a dict that cannot be serialised returns False, is never
\* handed to Redis, and no callback is ever called with it.
C19_InvalidPayloadFailsFast ==
    \A id \in 1..Len(published) :
        published[id].msg.kind = "baddict" =>
            /\ ~published[id].sent
            /\ ~published[id].ok
            /\ \A k \in 1..Len(inbox) : inbox[k].id # id
            /\ \A t \in DOMAIN threads : threads[t].msg.id # id
            /\ \A cb \in DOMAIN received : id \notin Range(received[cb])

\* a dict that cannot be serialised was published on a channel that has a
\* callback, a Redis subscription and a listener waiting
C19_Witness ==
    /\ Len(published) = 1
    /\ published[1].msg.kind = "baddict"
    /\ published[1].subsAt = <<CbA>>
    /\ published[1].channel \in redisSubs
    /\ running
    /\ Len(threads) = 1 /\ threads[1].pc = "listen"
    /\ inbox = <<>>
    /\ received = <<>>

\* the notification channel of user id target
NotificationsOf(target) == <<"user", target, "notifications">>

\* the step published something, and on the channel ch
PublishedOn(ch) ==
    /\ published' # published
    /\ published'[Len(published')].channel = ch

HandedOn(ch, d) ==
    /\ Len(published') = Len(published) + 1
    /\ published'[Len(published')].channel = ch
    /\ published'[Len(published')].msg = DictMsg(d)

\* C21: each dispatcher helper publishes once, on the channel templated from the
\* entity id, and the dict it publishes is the caller's dict, key for key.
C21_DispatcherMapping ==
    [][\A id \in EventIds, d \in EventData, ok \in BOOLEAN :
          /\ PublishWorkspaceUpdate(id, d, ok) => HandedOn(<<"workspace", id>>, d)
          /\ PublishUserNotification(id, d, ok) => HandedOn(<<"user", id, "notifications">>, d)
          /\ PublishPageUpdate(id, d, ok) => HandedOn(<<"page", id>>, d)
          /\ PublishBlockUpdate(id, d, ok) => HandedOn(<<"block", id>>, d)
          /\ PublishCommentUpdate(id, d, ok) => HandedOn(<<"page", id, "comments">>, d)]_vars

\* C22: no key of subscribers maps to an empty callback list.
C22_NoEmptyChannelEntry ==
    \A ch \in DOMAIN subscribers : subscribers[ch] # <<>>

\* the callbacks registered under a channel, none when the channel is no key
SubscriberSet(ch) == IF ch \in DOMAIN subscribers THEN Range(subscribers[ch]) ELSE {}

SubscriberSetAfter(ch) == IF ch \in DOMAIN subscribers' THEN Range(subscribers'[ch]) ELSE {}

\* no channel's subscriber set and no session's channel set changes in the step
NothingJoinedChanges ==
    /\ \A ch \in ServiceChannels : SubscriberSetAfter(ch) = SubscriberSet(ch)
    /\ active_connections' = active_connections
    /\ rooms' = rooms

\* C23: unsubscribing a callback from a channel that is unknown, or known but
\* without that callback, and leaving a room the socket is not in, change no
\* subscriber set and no session's channel set, and the socket is answered
\* 'unsubscribed', not 'error'.
C23_NonMemberLeaveIsNoOp ==
    /\ [][\A ch \in ServiceChannels, cb \in DirectCallbacks, ok \in BOOLEAN :
             (cb \notin SubscriberSet(ch) /\
              (Unsubscribe(ch, cb, ok) \/ UnsubscribeUnknown(ch, cb)))
                 => NothingJoinedChanges]_vars
    /\ [][\A sid \in Sids, ch \in LeaveChannels :
             (/\ sid \in DOMAIN active_connections
              /\ ch \notin active_connections[sid].channels
              /\ <<ch, sid>> \notin rooms
              /\ WsUnsubscribe(sid, ch))
                 => (NothingJoinedChanges /\ wsOut' = [sid |-> sid, event |-> "unsubscribed"])]_vars

\* a callback that never joined has left a channel others are still on, and the
\* socket of u2, who can join neither channel, was answered for a leave while
\* the socket of u1 is in a room
C23_Witness ==
    /\ \E p \in left \ joined : SubscriberSet(p[1]) # {}
    /\ "s2" \in DOMAIN active_connections
    /\ active_connections["s2"].user_id = "u2"
    /\ wsOut = [sid |-> "s2", event |-> "unsubscribed"]
    /\ <<N1, "s1">> \in rooms

\* no handler of the connection is part-way through
Quiet(sid) == \A h \in inflight : h.sid # sid

\* C24: whenever no handler of a connection is part-way through, the connection
\* is in a channel's room exactly when its session record exists and lists the
\* channel; a subscribe racing the disconnect leaves no room behind.
C24_NoDanglingRooms ==
    \A sid \in Sids, ch \in HandlerChannels :
        Quiet(sid) =>
            (<<ch, sid>> \in rooms <=>
                (sid \in DOMAIN active_connections /\ ch \in active_connections[sid].channels))

\* the callbacks the loop of thread t has still to call
Pending(t) ==
    LET list == CallbackList(t)
    IN  {list[i] : i \in threads[t].idx..Len(list)}

PendingAfter(t) ==
    LET list == IF threads'[t].det THEN threads'[t].snap
                ELSE subscribers'[threads'[t].msg.channel]
    IN  {list[i] : i \in threads'[t].idx..Len(list)}

\* thread t is in the loop over the callbacks before and after the step, at the
\* same message and the same position
StaysInLoop(t) ==
    /\ threads[t].pc = "iter"
    /\ Len(threads') = Len(threads)
    /\ threads'[t].pc = "iter"
    /\ threads'[t].msg = threads[t].msg
    /\ threads'[t].idx = threads[t].idx

\* C25: a fan-out that runs beside subscribe and unsubscribe calls never fails on
\* a channel entry removed after the test of line 121, and a callback it has
\* still to call is still to be called after any step that leaves the callback
\* registered on the channel.
C25_FanOutOverSnapshot ==
    /\ [][\A t \in DOMAIN threads :
             (threads[t].pc = "lookup" /\ ListenerLookup(t)) => Len(threads') = Len(threads)]_vars
    /\ [][\A t \in DOMAIN threads :
             StaysInLoop(t) =>
                 \A cb \in Pending(t) :
                     cb \in SubscriberSetAfter(threads[t].msg.channel) => cb \in PendingAfter(t)]_vars

\* C26: with no stop() call made, while some callback is registered a listener
\* thread is alive to deliver the next message: neither a raising callback nor
\* an unsubscribe racing the delivery has ended the loop.
C26_ListenerSurvivesErrors ==
    (\E ch \in DOMAIN subscribers : subscribers[ch] # <<>>) => threads # <<>>

\* C27: at most one listener thread of the service is alive, whatever the
\* interleaving of subscribe calls, stop() and later subscribe calls.
C27_SingleListener ==
    Len(threads) <= 1

\* C28: the channels that are keys of subscribers are the channels the Redis
\* pubsub client is subscribed to, also after Redis commands that failed.
C28_RegistryMatchesRedis ==
    DOMAIN subscribers = redisSubs

\* C29: a get_profile that started after an update had returned returns that
\* update's data or newer, whatever get_profile calls were under way meanwhile.
C29_ProfileNeverStale ==
    lastGet.value >= lastGet.floor

\* C30: all calls of get_pubsub_service in the process return one and the same
\* instance, also when the first calls run at the same time.
C30_SingletonBroker ==
    Cardinality(handed) <= 1

====
